---------------------------- MODULE Spec2Model ----------------------------
(***************************************************************************)
(* Model of src/src/OptimisticConstructionEstimator.jsx: the eleven        *)
(* useState cells, the two useMemo cells (results, phaseDurations), the    *)
(* rendered output, the onChange handlers of the eleven inputs and the     *)
(* three buttons (Copy inputs, Print view, Usage note).                    *)
(*                                                                         *)
(* JavaScript numbers are modelled in sign-magnitude form, as IEEE 754     *)
(* keeps them: a sign, and either a finite magnitude n/d (an exact         *)
(* fraction in lowest terms), Infinity, or NaN.  Signed zero, division by  *)
(* zero and the propagation of Infinity and NaN follow IEEE 754; rounding  *)
(* of finite results to 53 bits is not modelled (finite arithmetic is      *)
(* exact).                                                                 *)
(***************************************************************************)
EXTENDS Integers, Sequences, FiniteSets, TLC

VARIABLES inputs, results, resultsDeps, phaseDurations, phaseDeps, view,
          clipboard, lastEvent, nEvents

vars == <<inputs, results, resultsDeps, phaseDurations, phaseDeps, view,
          clipboard, lastEvent, nEvents>>

\* The number of user events (field edits and button clicks) explored.
MaxEvents == 4

-----------------------------------------------------------------------------
(* JavaScript numbers *)

RECURSIVE GCD(_, _)
GCD(a, b) == IF b = 0 THEN a ELSE GCD(b, a % b)

\* A finite number of sign s and magnitude n/d, in lowest terms.
Fin(s, n, d) ==
    LET g == GCD(n, d)
    IN  [k |-> "fin", s |-> s, n |-> n \div g, d |-> d \div g]

Inf(s) == [k |-> "inf", s |-> s, n |-> 0, d |-> 1]
NaN == [k |-> "nan", s |-> 1, n |-> 0, d |-> 1]

\* An integer literal.
Num(i) == IF i < 0 THEN Fin(-1, -i, 1) ELSE Fin(1, i, 1)

IsNaN(a) == a.k = "nan"
IsFinite(a) == a.k = "fin"
IsZero(a) == a.k = "fin" /\ a.n = 0

\* Unary minus.
Neg(a) == IF IsNaN(a) THEN NaN ELSE [a EXCEPT !.s = -a.s]

\* a * b
Mul(a, b) ==
    IF IsNaN(a) \/ IsNaN(b) THEN NaN
    ELSE IF a.k = "inf" \/ b.k = "inf"
         THEN IF IsZero(a) \/ IsZero(b) THEN NaN ELSE Inf(a.s * b.s)
    ELSE LET g == GCD(a.n, b.d)
             h == GCD(b.n, a.d)
         IN  Fin(a.s * b.s, (a.n \div g) * (b.n \div h),
                 (a.d \div h) * (b.d \div g))

\* a / b
Div(a, b) ==
    IF IsNaN(a) \/ IsNaN(b) THEN NaN
    ELSE IF a.k = "inf"
         THEN IF b.k = "inf" THEN NaN ELSE Inf(a.s * b.s)
    ELSE IF b.k = "inf" THEN Fin(a.s * b.s, 0, 1)
    ELSE IF b.n = 0
         THEN IF a.n = 0 THEN NaN ELSE Inf(a.s * b.s)
    ELSE LET g == GCD(a.n, b.n)
             h == GCD(a.d, b.d)
         IN  Fin(a.s * b.s, (a.n \div g) * (b.d \div h),
                 (a.d \div h) * (b.n \div g))

\* a + b
Add(a, b) ==
    IF IsNaN(a) \/ IsNaN(b) THEN NaN
    ELSE IF a.k = "inf"
         THEN IF b.k = "inf" /\ b.s # a.s THEN NaN ELSE a
    ELSE IF b.k = "inf" THEN b
    ELSE LET g == GCD(a.d, b.d)
             num == a.s * a.n * (b.d \div g) + b.s * b.n * (a.d \div g)
             den == (a.d \div g) * b.d
         IN  IF num = 0
             THEN Fin(IF a.s = -1 /\ b.s = -1 THEN -1 ELSE 1, 0, 1)
             ELSE IF num < 0 THEN Fin(-1, -num, den) ELSE Fin(1, num, den)

\* a - b
Sub(a, b) == Add(a, Neg(b))

\* a < b
Lt(a, b) ==
    IF IsNaN(a) \/ IsNaN(b) THEN FALSE
    ELSE IF a.k = "inf" THEN a.s = -1 /\ ~(b.k = "inf" /\ b.s = -1)
    ELSE IF b.k = "inf" THEN b.s = 1
    ELSE LET g == GCD(a.d, b.d)
         IN  a.s * a.n * (b.d \div g) < b.s * b.n * (a.d \div g)

\* a === b
StrictEq(a, b) ==
    /\ ~IsNaN(a)
    /\ ~IsNaN(b)
    /\ a.k = b.k
    /\ IF a.k = "inf" THEN a.s = b.s
       ELSE a.n = b.n /\ a.d = b.d /\ (a.s = b.s \/ a.n = 0)

\* a <= b
Le(a, b) == Lt(a, b) \/ StrictEq(a, b)

\* Math.max(a, b)
MathMax(a, b) ==
    IF IsNaN(a) \/ IsNaN(b) THEN NaN
    ELSE IF Lt(a, b) THEN b
    ELSE IF Lt(b, a) THEN a
    ELSE IF a.s = 1 THEN a ELSE b

\* Math.min(a, b)
MathMin(a, b) ==
    IF IsNaN(a) \/ IsNaN(b) THEN NaN
    ELSE IF Lt(a, b) THEN a
    ELSE IF Lt(b, a) THEN b
    ELSE IF a.s = -1 THEN a ELSE b

\* Math.ceil(a)
MathCeil(a) ==
    IF ~IsFinite(a) THEN a
    ELSE IF a.s = 1 THEN Fin(1, (a.n + a.d - 1) \div a.d, 1)
    ELSE Fin(-1, a.n \div a.d, 1)

\* Math.round(a): to the nearest integer, a tie towards +Infinity.
MathRound(a) ==
    IF ~IsFinite(a) THEN a
    ELSE IF a.s = 1 THEN Fin(1, (2 * a.n + a.d) \div (2 * a.d), 1)
    ELSE Fin(-1, (2 * a.n + a.d - 1) \div (2 * a.d), 1)

\* The number a.toFixed(1) denotes: one decimal, a tie away from zero.
ToFixed1(a) ==
    IF ~IsFinite(a) THEN a
    ELSE IF a.n = 0 THEN Fin(1, 0, 1)
    ELSE Fin(a.s, (20 * a.n + a.d) \div (2 * a.d), 10)

-----------------------------------------------------------------------------
(* Texts: sequences of one-character strings *)

Digits == <<"0", "1", "2", "3", "4", "5", "6", "7", "8", "9">>

IsDigit(c) == \E i \in 1..Len(Digits) : Digits[i] = c
DigitVal(c) == (CHOOSE i \in 1..Len(Digits) : Digits[i] = c) - 1

RECURSIVE DigitsVal(_)
DigitsVal(t) ==
    IF t = <<>> THEN 0
    ELSE 10 * DigitsVal(SubSeq(t, 1, Len(t) - 1)) + DigitVal(t[Len(t)])

RECURSIVE Pow10(_)
Pow10(k) == IF k = 0 THEN 1 ELSE 10 * Pow10(k - 1)

\* A decimal literal: an optional "-", digits, and at most one "." among them.
IsDecimalLiteral(t) ==
    LET body == IF t # <<>> /\ t[1] = "-" THEN Tail(t) ELSE t
    IN  /\ \E i \in 1..Len(body) : IsDigit(body[i])
        /\ \A i \in 1..Len(body) : IsDigit(body[i]) \/ body[i] = "."
        /\ Cardinality({i \in 1..Len(body) : body[i] = "."}) <= 1

\* Number(text): the empty string is 0, a decimal literal its value, any other
\* text NaN.
StringToNumber(t) ==
    IF t = <<>> THEN Num(0)
    ELSE IF ~IsDecimalLiteral(t) THEN NaN
    ELSE LET s == IF t[1] = "-" THEN -1 ELSE 1
             body == IF t[1] = "-" THEN Tail(t) ELSE t
             dots == {i \in 1..Len(body) : body[i] = "."}
         IN  IF dots = {} THEN Fin(s, DigitsVal(body), 1)
             ELSE LET p == CHOOSE i \in dots : TRUE
                      ip == SubSeq(body, 1, p - 1)
                      fp == SubSeq(body, p + 1, Len(body))
                  IN  Fin(s, DigitsVal(ip \o fp), Pow10(Len(fp)))

RECURSIVE NatToText(_)
NatToText(n) ==
    IF n < 10 THEN <<Digits[n + 1]>>
    ELSE NatToText(n \div 10) \o <<Digits[(n % 10) + 1]>>

\* The decimals of r/d (r < d), at most k of them.
RECURSIVE FracToText(_, _, _)
FracToText(r, d, k) ==
    IF r = 0 \/ k = 0 THEN <<>>
    ELSE <<Digits[((10 * r) \div d) + 1]>> \o FracToText((10 * r) % d, d, k - 1)

\* A number as JSON.stringify writes it: null for Infinity and NaN, 0 for
\* either zero, else the decimal literal.
NumberToJSON(a) ==
    IF ~IsFinite(a) THEN <<"n", "u", "l", "l">>
    ELSE IF a.n = 0 THEN <<"0">>
    ELSE (IF a.s = -1 THEN <<"-">> ELSE <<>>)
         \o NatToText(a.n \div a.d)
         \o (IF a.n % a.d = 0 THEN <<>>
             ELSE <<".">> \o FracToText(a.n % a.d, a.d, 17))

-----------------------------------------------------------------------------
(* The component *)

\* The useState cells and their initial values.
DefaultInputs ==
    [aFloor |-> Num(555), nFloors |-> Num(9), workers |-> Num(65),
     hDay |-> Num(8), dWeek |-> Num(7),
     daysPerFloorStruct |-> Num(10), finishesMHPerM2 |-> Num(30),
     preDays |-> Num(42), foundDays |-> Num(28), commissionDays |-> Num(14),
     overlapFraction |-> Fin(1, 8, 10)]

\* ComputeResults with the overlap fraction taken for the remaining fraction.
ComputeResultsOverlapAsRemaining(in) ==
    LET GFA == Mul(in.aFloor, in.nFloors)
        MHPerDay == Mul(in.workers, in.hDay)
        structDays == Mul(in.daysPerFloorStruct, in.nFloors)
        finishesMHTotal == Mul(in.finishesMHPerM2, GFA)
        finishesDaysFull == Div(finishesMHTotal, MHPerDay)
        finishesDaysRemaining == Mul(in.overlapFraction, finishesDaysFull)
        totalDays ==
            Add(Add(Add(Add(in.preDays, in.foundDays), structDays),
                    finishesDaysRemaining), in.commissionDays)
    IN  [GFA |-> GFA, MHPerDay |-> MHPerDay, structDays |-> structDays,
         finishesMHTotal |-> finishesMHTotal,
         finishesDaysFull |-> finishesDaysFull,
         finishesDaysRemaining |-> finishesDaysRemaining,
         totalDays |-> totalDays]

\* The callback of the results memo.
ComputeResults(in) ==
    LET GFA == Mul(in.aFloor, in.nFloors)
        MHPerDay == Mul(in.workers, in.hDay)
        structDays == Mul(in.daysPerFloorStruct, in.nFloors)
        finishesMHTotal == Mul(in.finishesMHPerM2, GFA)
        finishesDaysFull == Div(finishesMHTotal, MHPerDay)
        finishesDaysRemaining ==
            Mul(Sub(Num(1), in.overlapFraction), finishesDaysFull)
        totalDays ==
            Add(Add(Add(Add(in.preDays, in.foundDays), structDays),
                    finishesDaysRemaining), in.commissionDays)
    IN  [GFA |-> GFA, MHPerDay |-> MHPerDay, structDays |-> structDays,
         finishesMHTotal |-> finishesMHTotal,
         finishesDaysFull |-> finishesDaysFull,
         finishesDaysRemaining |-> finishesDaysRemaining,
         totalDays |-> totalDays]

\* ResultsDeps with workers left out of the array.
ResultsDepsWithoutWorkers(in) ==
    <<in.aFloor, in.nFloors, in.hDay, in.daysPerFloorStruct,
      in.finishesMHPerM2, in.preDays, in.foundDays, in.commissionDays,
      in.overlapFraction, in.dWeek>>

\* The dependency array of the results memo.
ResultsDeps(in) ==
    <<in.aFloor, in.nFloors, in.workers, in.hDay, in.daysPerFloorStruct,
      in.finishesMHPerM2, in.preDays, in.foundDays, in.commissionDays,
      in.overlapFraction, in.dWeek>>

\* ComputePhaseDurations with the structural phase left out of the total.
ComputePhaseDurationsWithoutStruct(in, res) ==
    LET pre == in.preDays
        found == in.foundDays
        struct == res.structDays
        finishesRem == res.finishesDaysRemaining
        comm == in.commissionDays
        total == Add(Add(Add(pre, found), finishesRem), comm)
    IN  [pre |-> pre, found |-> found, struct |-> struct,
         finishesRem |-> finishesRem, comm |-> comm, total |-> total]

\* The callback of the phaseDurations memo.
ComputePhaseDurations(in, res) ==
    LET pre == in.preDays
        found == in.foundDays
        struct == res.structDays
        finishesRem == res.finishesDaysRemaining
        comm == in.commissionDays
        total == Add(Add(Add(Add(pre, found), struct), finishesRem), comm)
    IN  [pre |-> pre, found |-> found, struct |-> struct,
         finishesRem |-> finishesRem, comm |-> comm, total |-> total]

\* The dependency array of the phaseDurations memo, but for its first entry,
\* the results object: that one differs from the last render's exactly when
\* the results memo ran its callback in this render.
PhaseDeps(in) == <<in.preDays, in.foundDays, in.commissionDays>>

\* clamp without its lower bound.
clampUpperOnly(v, min, max) == MathMin(max, v)

clamp(v, min, max) == MathMax(min, MathMin(max, v))

daysToWeeks(in, days) == ToFixed1(Div(days, in.dWeek))
daysToMonths(days) == ToFixed1(Div(days, Fin(1, 3044, 100)))

PhaseKeys == <<"pre", "found", "struct", "finishesRem", "comm">>

\* The width, in percent, of the bar of phase k.
BarWidth(ph, k) ==
    MathMax(Num(1), MathRound(Mul(Div(ph[k], ph.total), Num(100))))

\* The numbers the returned element shows.
RenderView(in, res, ph) ==
    [GFA |-> res.GFA,
     MHPerDay |-> res.MHPerDay,
     structDays |-> res.structDays,
     structWeeks |-> daysToWeeks(in, res.structDays),
     finishesMHTotal |-> MathRound(res.finishesMHTotal),
     finishesDaysFull |-> MathCeil(res.finishesDaysFull),
     finishesWeeksFull |-> daysToWeeks(in, res.finishesDaysFull),
     finishesDaysRemaining |-> MathCeil(res.finishesDaysRemaining),
     finishesWeeksRemaining |-> daysToWeeks(in, res.finishesDaysRemaining),
     fixedDays |-> Add(Add(in.preDays, in.foundDays), in.commissionDays),
     totalDays |-> MathCeil(res.totalDays),
     totalWeeks |-> daysToWeeks(in, res.totalDays),
     totalMonths |-> daysToMonths(res.totalDays),
     barWidth |-> [i \in 1..Len(PhaseKeys) |-> BarWidth(ph, PhaseKeys[i])],
     barTitle |-> [i \in 1..Len(PhaseKeys) |-> ph[PhaseKeys[i]]]]

\* What the user did last.
Event(op, field, text) == [op |-> op, field |-> field, text |-> text]

\* A render of the component with the state cells holding in: each memo runs
\* its callback when an entry of its dependency array changed, and keeps its
\* value otherwise.
Render(in) ==
    LET resultsRan == ResultsDeps(in) # resultsDeps
        res == IF resultsRan THEN ComputeResults(in) ELSE results
        phaseRan == resultsRan \/ PhaseDeps(in) # phaseDeps
        ph == IF phaseRan THEN ComputePhaseDurations(in, res)
              ELSE phaseDurations
    IN  /\ inputs' = in
        /\ results' = res
        /\ resultsDeps' = (IF resultsRan THEN ResultsDeps(in) ELSE resultsDeps)
        /\ phaseDurations' = ph
        /\ phaseDeps' = (IF phaseRan THEN PhaseDeps(in) ELSE phaseDeps)
        /\ view' = RenderView(inputs', results', phaseDurations')

\* The first render.
Init ==
    /\ inputs = DefaultInputs
    /\ results = ComputeResults(DefaultInputs)
    /\ resultsDeps = ResultsDeps(DefaultInputs)
    /\ phaseDurations =
           ComputePhaseDurations(DefaultInputs, ComputeResults(DefaultInputs))
    /\ phaseDeps = PhaseDeps(DefaultInputs)
    /\ view = RenderView(DefaultInputs, ComputeResults(DefaultInputs),
                  ComputePhaseDurations(DefaultInputs,
                                        ComputeResults(DefaultInputs)))
    /\ clipboard = <<>>
    /\ lastEvent = Event("mount", "", <<>>)
    /\ nEvents = 0

-----------------------------------------------------------------------------
(* The user's events *)

\* The values e.target.value takes in the events explored.  A number input
\* holds the empty string or a decimal literal; a range input holds one of
\* its steps between its min and its max.
AreaTexts == {<<>>, <<"0", ".", "5">>}
StoreyTexts == {<<"0">>}
WorkerTexts == {<<"0">>, <<"-", "0">>}
HourTexts == {<<"0">>, <<"1", "2">>, <<"2", "5">>}
WeekTexts == {<<"0">>, <<"9">>}
PreTexts == {<<"0">>, <<"-", "7">>}
FoundTexts == {<<"0">>}
CommissionTexts == {<<>>}
StructSliderTexts == {<<"1", "8">>}
FinishesSliderTexts == {<<"1", "5">>}
OverlapSliderTexts == {<<"0">>, <<"0", ".", "9", "5">>}

\* The user's event is counted and recorded.
Recorded(event) ==
    /\ lastEvent' = event
    /\ nEvents' = nEvents + 1

\* The onChange handlers: each sets its cell, and the component renders again
\* before the next event.
ChangeAFloor ==
    \E t \in AreaTexts :
        /\ nEvents < MaxEvents
        /\ Render([inputs EXCEPT
                      !.aFloor = StringToNumber(t)])
        /\ Recorded(Event("change", "aFloor", t))
        /\ UNCHANGED clipboard

ChangeNFloors ==
    \E t \in StoreyTexts :
        /\ nEvents < MaxEvents
        /\ Render([inputs EXCEPT
                      !.nFloors = StringToNumber(t)])
        /\ Recorded(Event("change", "nFloors", t))
        /\ UNCHANGED clipboard

ChangeWorkers ==
    \E t \in WorkerTexts :
        /\ nEvents < MaxEvents
        /\ Render([inputs EXCEPT
                      !.workers = StringToNumber(t)])
        /\ Recorded(Event("change", "workers", t))
        /\ UNCHANGED clipboard

ChangeHDay ==
    \E t \in HourTexts :
        /\ nEvents < MaxEvents
        /\ Render([inputs EXCEPT
                      !.hDay = clamp(StringToNumber(t), Num(1), Num(24))])
        /\ Recorded(Event("change", "hDay", t))
        /\ UNCHANGED clipboard

ChangeDWeek ==
    \E t \in WeekTexts :
        /\ nEvents < MaxEvents
        /\ Render([inputs EXCEPT
                      !.dWeek = clamp(StringToNumber(t), Num(1), Num(7))])
        /\ Recorded(Event("change", "dWeek", t))
        /\ UNCHANGED clipboard

ChangeDaysPerFloorStruct ==
    \E t \in StructSliderTexts :
        /\ nEvents < MaxEvents
        /\ Render([inputs EXCEPT
                      !.daysPerFloorStruct = StringToNumber(t)])
        /\ Recorded(Event("change", "daysPerFloorStruct", t))
        /\ UNCHANGED clipboard

ChangeFinishesMHPerM2 ==
    \E t \in FinishesSliderTexts :
        /\ nEvents < MaxEvents
        /\ Render([inputs EXCEPT
                      !.finishesMHPerM2 = StringToNumber(t)])
        /\ Recorded(Event("change", "finishesMHPerM2", t))
        /\ UNCHANGED clipboard

ChangePreDays ==
    \E t \in PreTexts :
        /\ nEvents < MaxEvents
        /\ Render([inputs EXCEPT
                      !.preDays = StringToNumber(t)])
        /\ Recorded(Event("change", "preDays", t))
        /\ UNCHANGED clipboard

ChangeFoundDays ==
    \E t \in FoundTexts :
        /\ nEvents < MaxEvents
        /\ Render([inputs EXCEPT
                      !.foundDays = StringToNumber(t)])
        /\ Recorded(Event("change", "foundDays", t))
        /\ UNCHANGED clipboard

ChangeCommissionDays ==
    \E t \in CommissionTexts :
        /\ nEvents < MaxEvents
        /\ Render([inputs EXCEPT
                      !.commissionDays = StringToNumber(t)])
        /\ Recorded(Event("change", "commissionDays", t))
        /\ UNCHANGED clipboard

ChangeOverlapFraction ==
    \E t \in OverlapSliderTexts :
        /\ nEvents < MaxEvents
        /\ Render([inputs EXCEPT
                      !.overlapFraction = StringToNumber(t)])
        /\ Recorded(Event("change", "overlapFraction", t))
        /\ UNCHANGED clipboard

\* The keys of the exported object, in its order.
FieldNames ==
    <<"aFloor", "nFloors", "workers", "hDay", "dWeek", "daysPerFloorStruct",
      "finishesMHPerM2", "preDays", "foundDays", "commissionDays",
      "overlapFraction">>

Line(kind, key, value) == [kind |-> kind, key |-> key, value |-> value]

\* The text handed to the clipboard, line by line: the comment line, then
\* JSON.stringify(sample, null, 2).
ExportText(in) ==
    <<Line("comment", "// Optimistic estimator inputs (JSON)", <<>>),
      Line("open", "{", <<>>)>>
    \o [i \in 1..Len(FieldNames) |->
           Line("member", FieldNames[i], NumberToJSON(in[FieldNames[i]]))]
    \o <<Line("close", "}", <<>>)>>

\* CopyInputs followed by a reset of the form to its defaults.
CopyInputsThenReset ==
    /\ nEvents < MaxEvents
    /\ \E written \in BOOLEAN :
           clipboard' = IF written THEN ExportText(inputs) ELSE clipboard
    /\ Recorded(Event("copy", "", <<>>))
    /\ Render(DefaultInputs)

\* The Copy inputs button.  navigator.clipboard may be missing and writeText
\* may reject: the text is written or it is not.
CopyInputs ==
    /\ nEvents < MaxEvents
    /\ \E written \in BOOLEAN :
           clipboard' = IF written THEN ExportText(inputs) ELSE clipboard
    /\ Recorded(Event("copy", "", <<>>))
    /\ UNCHANGED <<inputs, results, resultsDeps, phaseDurations, phaseDeps,
                   view>>

\* The Print view button: window.print().
PrintView ==
    /\ nEvents < MaxEvents
    /\ Recorded(Event("print", "", <<>>))
    /\ UNCHANGED <<inputs, results, resultsDeps, phaseDurations, phaseDeps,
                   view, clipboard>>

\* The Usage note button: alert(...).
UsageNote ==
    /\ nEvents < MaxEvents
    /\ Recorded(Event("usage", "", <<>>))
    /\ UNCHANGED <<inputs, results, resultsDeps, phaseDurations, phaseDeps,
                   view, clipboard>>

Next ==
    \/ ChangeAFloor
    \/ ChangeNFloors
    \/ ChangeWorkers
    \/ ChangeHDay
    \/ ChangeDWeek
    \/ ChangeDaysPerFloorStruct
    \/ ChangeFinishesMHPerM2
    \/ ChangePreDays
    \/ ChangeFoundDays
    \/ ChangeCommissionDays
    \/ ChangeOverlapFraction
    \/ CopyInputs
    \/ PrintView
    \/ UsageNote

Spec == Init /\ [][Next]_vars

-----------------------------------------------------------------------------
(* Reading an exported text back: JSON.parse *)

\* The value of a JSON number or null.
JSONValue(t) ==
    IF t = <<"n", "u", "l", "l">>
    THEN [k |-> "null", s |-> 1, n |-> 0, d |-> 1]
    ELSE StringToNumber(t)

\* JSON.parse(text): a text that is not one JSON value is a SyntaxError; JSON
\* has no comments.
JSONParse(text) ==
    LET n == Len(text)
        isObject ==
            /\ n >= 2
            /\ text[1].kind = "open"
            /\ text[n].kind = "close"
            /\ \A i \in 2..(n - 1) : text[i].kind = "member"
    IN  IF ~isObject THEN [ok |-> FALSE, value |-> <<>>]
        ELSE [ok |-> TRUE,
              value |-> [key \in {text[i].key : i \in 2..(n - 1)} |->
                            LET at == CHOOSE i \in 2..(n - 1) :
                                          text[i].key = key
                            IN  JSONValue(text[at].value)]]

-----------------------------------------------------------------------------
(* Properties *)

\* The steps of the overlap slider: min 0, max 0.95, step 0.05.
OverlapSliderSteps == {Fin(1, i, 20) : i \in 0..19}

\* v is a number >= 0 (and not the negative zero).
NonNegative(v) == IsFinite(v) /\ v.s = 1

\* The bound of [lo, hi] nearest to v, or v itself within the bounds.
Nearest(v, lo, hi) == IF Lt(v, lo) THEN lo ELSE IF Lt(hi, v) THEN hi ELSE v

\* C1: whenever manHoursPerDay is 0, the finishes durations and the total are
\* neither computed nor shown as Infinity or NaN.
C1_ZeroManHoursNotInfinityOrNaN ==
    IsZero(results.MHPerDay) =>
        /\ IsFinite(results.finishesDaysFull)
        /\ IsFinite(results.finishesDaysRemaining)
        /\ IsFinite(results.totalDays)
        /\ IsFinite(view.finishesDaysFull)
        /\ IsFinite(view.finishesDaysRemaining)
        /\ IsFinite(view.totalDays)

\* C2: after every event, the memoized results and phase durations and the
\* rendered numbers are those computed from the current eleven inputs.
C2_OutputsAreFresh ==
    LET res == ComputeResults(inputs)
        ph == ComputePhaseDurations(inputs, res)
    IN  /\ results = res
        /\ phaseDurations = ph
        /\ view = RenderView(inputs, res, ph)

C2_Witness ==
    /\ lastEvent.op = "change"
    /\ inputs.workers # DefaultInputs.workers
    /\ inputs.preDays # DefaultInputs.preDays
    /\ inputs.overlapFraction # DefaultInputs.overlapFraction
    /\ results = ComputeResults(inputs)

\* C3: with manHoursPerDay non-zero, totalDays is the sum of the five phase
\* durations, and the phase breakdown holds those five durations and the same
\* total.
C3_TotalIsSumOfPhases ==
    ~IsZero(results.MHPerDay) =>
        /\ StrictEq(results.totalDays,
               Add(Add(Add(Add(inputs.preDays, inputs.foundDays),
                           results.structDays),
                       results.finishesDaysRemaining),
                   inputs.commissionDays))
        /\ StrictEq(phaseDurations.total, results.totalDays)
        /\ phaseDurations.pre = inputs.preDays
        /\ phaseDurations.found = inputs.foundDays
        /\ phaseDurations.struct = results.structDays
        /\ phaseDurations.finishesRem = results.finishesDaysRemaining
        /\ phaseDurations.comm = inputs.commissionDays

C3_Witness ==
    /\ lastEvent.op = "change"
    /\ ~IsZero(results.MHPerDay)
    /\ inputs.preDays = Num(-7)
    /\ inputs.overlapFraction = Fin(1, 19, 20)
    /\ StrictEq(phaseDurations.total, results.totalDays)

\* C4: hoursPerDay stays within [1, 24] and daysPerWeek within [1, 7], and an
\* entry typed outside the range is replaced by the nearest bound.
C4_HoursAndDaysClamped ==
    /\ Le(Num(1), inputs.hDay) /\ Le(inputs.hDay, Num(24))
    /\ Le(Num(1), inputs.dWeek) /\ Le(inputs.dWeek, Num(7))
    /\ lastEvent.field = "hDay" =>
           inputs.hDay = Nearest(StringToNumber(lastEvent.text), Num(1), Num(24))
    /\ lastEvent.field = "dWeek" =>
           inputs.dWeek = Nearest(StringToNumber(lastEvent.text), Num(1), Num(7))

C4_Witness ==
    /\ lastEvent.field = "hDay"
    /\ lastEvent.text = <<"2", "5">>
    /\ inputs.hDay = Num(24)
    /\ inputs.dWeek = Num(1)

\* C5: every exported text parses, and right after an export it parses back
\* to the current eleven inputs.
C5_ExportRoundTrip ==
    clipboard # <<>> =>
        LET parsed == JSONParse(clipboard)
        IN  /\ parsed.ok
            /\ (lastEvent.op = "copy" /\ clipboard = ExportText(inputs)) =>
                   parsed.value = inputs

\* C6: a step of the copy, print or usage-note button changes none of the
\* inputs, the results, the phase durations or the rendered numbers.
C6_ButtonsChangeNoOutput ==
    [][lastEvent'.op \in {"copy", "print", "usage"} =>
          /\ inputs' = inputs
          /\ results' = results
          /\ phaseDurations' = phaseDurations
          /\ view' = view]_vars

C6_Witness ==
    /\ lastEvent.op \in {"copy", "print", "usage"}
    /\ nEvents >= 3
    /\ inputs.nFloors # DefaultInputs.nFloors
    /\ clipboard # <<>>

\* C7: with the other inputs as they are and finishesDaysIfSequential > 0, a
\* larger overlap fraction gives a strictly smaller finishesDaysRemaining and
\* a strictly smaller totalDays.
C7_OverlapStrictlyDecreases ==
    LET at == [f \in OverlapSliderSteps |->
                  ComputeResults([inputs EXCEPT !.overlapFraction = f])]
    IN  \A f1, f2 \in OverlapSliderSteps :
            (Lt(f1, f2) /\ Lt(Num(0), at[f1].finishesDaysFull)) =>
                /\ Lt(at[f2].finishesDaysRemaining, at[f1].finishesDaysRemaining)
                /\ Lt(at[f2].totalDays, at[f1].totalDays)

\* C8: on the first render the inputs are the documented defaults and the
\* outputs are 4995 m2, 520 MH/day, 90 structural days, 149850 finishes
\* man-hours and a total of 231.63 days (to two decimals), shown as 232 days.
C8_DefaultScenario ==
    nEvents = 0 =>
        /\ inputs.aFloor = Num(555)
        /\ inputs.nFloors = Num(9)
        /\ inputs.workers = Num(65)
        /\ inputs.hDay = Num(8)
        /\ inputs.dWeek = Num(7)
        /\ inputs.daysPerFloorStruct = Num(10)
        /\ inputs.finishesMHPerM2 = Num(30)
        /\ inputs.preDays = Num(42)
        /\ inputs.foundDays = Num(28)
        /\ inputs.commissionDays = Num(14)
        /\ inputs.overlapFraction = Fin(1, 8, 10)
        /\ results.GFA = Num(4995)
        /\ results.MHPerDay = Num(520)
        /\ results.structDays = Num(90)
        /\ results.finishesMHTotal = Num(149850)
        /\ MathRound(Mul(results.totalDays, Num(100))) = Num(23163)
        /\ view.totalDays = Num(232)

C8_Witness ==
    /\ nEvents = 0
    /\ lastEvent.op = "mount"
    /\ view.totalDays = Num(232)

\* C9: with overlap 0 and manHoursPerDay non-zero, finishesDaysRemaining is
\* finishesDaysIfSequential; and with non-negative inputs and an overlap in
\* [0, 0.95], 0 <= finishesDaysRemaining <= finishesDaysIfSequential.
C9_RemainingWithinSequential ==
    /\ (IsZero(inputs.overlapFraction) /\ ~IsZero(results.MHPerDay)) =>
           StrictEq(results.finishesDaysRemaining, results.finishesDaysFull)
    /\ ( /\ \A i \in 1..Len(FieldNames) : NonNegative(inputs[FieldNames[i]])
         /\ Le(inputs.overlapFraction, Fin(1, 95, 100)) ) =>
           /\ Le(Num(0), results.finishesDaysRemaining)
           /\ Le(results.finishesDaysRemaining, results.finishesDaysFull)

\* C10: each of the five bars has a numeric width of at least 1, also when a
\* phase, or every phase, lasts 0 days; stated for the states with
\* manHoursPerDay non-zero, where the durations are defined.
C10_BarWidthsDefined ==
    ~IsZero(results.MHPerDay) =>
        \A i \in 1..Len(PhaseKeys) :
            /\ IsFinite(view.barWidth[i])
            /\ Le(Num(1), view.barWidth[i])

=============================================================================
